---- MODULE Spec2Model ----
(***************************************************************************)
(* washOTP/totp.py as a state machine: one TOTP session (key, digits,      *)
(* period, algo), its property setters, generate() and link().             *)
(*                                                                         *)
(* Python values are represented as follows.                               *)
(*   str    a sequence of one-character strings; the literal pieces of an  *)
(*          f-string are kept as single multi-character elements           *)
(*   int    an integer                                                     *)
(*   number an int or a float argument: [ty |-> "int", n |-> v] is the int *)
(*          v, [ty |-> "float", n |-> v] is the float v / TimeDen          *)
(*   algo   [ty |-> "str", name |-> s], [ty |-> "callable", name |-> s]    *)
(*          (s is __name__) or [ty |-> "None", name |-> "None"]            *)
(* A call returns [err |-> e, val |-> v]: e = "none" when it returns v,    *)
(* otherwise the name of the exception it raises.                          *)
(***************************************************************************)
EXTENDS Integers, Sequences, FiniteSets, TLC

VARIABLES self, now, seed, op, arg, err, ret, trace

vars == <<self, now, seed, op, arg, err, ret, trace>>

\* ---------------------------------------------------------------- bounds
MaxNow == 2
MaxSeed == 1
MaxDigits == 8
TimeDen == 2

\* ------------------------------------------------------ program constants
DefaultDigits == 6
DefaultPeriod == 30
BinWidth == 5
NibbleBits == 4
CounterWidth == 16
KeySha256Prefix == 12
KeySha512Prefix == 4

\* ------------------------------------------------------- generic helpers
Ok(v) == [err |-> "none", val |-> v]
Raise(e) == [err |-> e, val |-> <<>>]

Pow(b, e) == IF e = 0 THEN 1
             ELSE LET p[k \in 0..e] == IF k = 0 THEN 1 ELSE b * p[k - 1] IN p[e]

Zeros(n) == [i \in 1..n |-> "0"]

Abs(n) == IF n < 0 THEN -n ELSE n

\* Python s[:n] for n >= 0
Prefix(s, n) == SubSeq(s, 1, IF n < Len(s) THEN n ELSE Len(s))

\* Python s[-n:] for n >= 0 (s[-0:] is s[0:], the whole string)
Suffix(s, n) == IF n = 0 \/ n >= Len(s) THEN s ELSE SubSeq(s, Len(s) - n + 1, Len(s))

\* Python str.zfill(width): zeros go after a leading sign
Zfill(s, width) ==
  IF Len(s) >= width THEN s
  ELSE IF Len(s) > 0 /\ Head(s) \in {"+", "-"}
       THEN <<Head(s)>> \o Zeros(width - Len(s)) \o Tail(s)
       ELSE Zeros(width - Len(s)) \o s

HexChars == <<"0", "1", "2", "3", "4", "5", "6", "7", "8", "9", "a", "b", "c", "d", "e", "f">>
HexDigitSet == {HexChars[i] : i \in 1..16}
DecDigitSet == {HexChars[i] : i \in 1..10}

HexValue == [c \in HexDigitSet |-> (CHOOSE i \in 1..16 : HexChars[i] = c) - 1]
HexVal(c) == HexValue[c]

\* digits of n >= 0 in the given base, most significant first ("0" for 0)
RECURSIVE Digits(_, _)
Digits(n, base) == IF n < base THEN <<HexChars[n + 1]>>
                   ELSE Digits(n \div base, base) \o <<HexChars[(n % base) + 1]>>

\* Python bin(n), hex(n), str(n)
Bin(n) == (IF n < 0 THEN <<"-">> ELSE <<>>) \o <<"0", "b">> \o Digits(Abs(n), 2)
Hex(n) == (IF n < 0 THEN <<"-">> ELSE <<>>) \o <<"0", "x">> \o Digits(Abs(n), 16)
Str(n) == (IF n < 0 THEN <<"-">> ELSE <<>>) \o Digits(Abs(n), 10)

\* Python s.replace(old, "") for a two-character old
RECURSIVE Remove2(_, _)
Remove2(s, old) ==
  IF Len(s) < 2 THEN s
  ELSE IF SubSeq(s, 1, 2) = old THEN Remove2(SubSeq(s, 3, Len(s)), old)
       ELSE <<Head(s)>> \o Remove2(Tail(s), old)

\* value of a string of digits in the given base
RECURSIVE DigitsVal(_, _)
DigitsVal(s, base) == IF s = <<>> THEN 0
                      ELSE DigitsVal(SubSeq(s, 1, Len(s) - 1), base) * base + HexVal(s[Len(s)])

\* Python int(s, 2): an optional sign, then at least one binary digit
IntBase2(s) ==
  LET body == IF Len(s) > 0 /\ Head(s) \in {"+", "-"} THEN Tail(s) ELSE s
  IN IF body = <<>> \/ \E i \in 1..Len(body) : body[i] \notin {"0", "1"}
     THEN Raise("ValueError")
     ELSE Ok(IF Len(s) > 0 /\ Head(s) = "-" THEN -DigitsVal(body, 2) ELSE DigitsVal(body, 2))

\* Python int(x) for an int or float argument: truncation toward zero
PyInt(x) == IF x.ty = "int" THEN x.n
          ELSE IF x.n >= 0 THEN x.n \div TimeDen ELSE -((-x.n) \div TimeDen)

\* the value of a number in units of 1/TimeDen
Scaled(x) == IF x.ty = "int" THEN x.n * TimeDen ELSE x.n

RECURSIVE Flatten(_)
Flatten(ss) == IF ss = <<>> THEN <<>> ELSE Head(ss) \o Flatten(Tail(ss))

\* ----------------------------------------------------------- totp.py 8-16
_CHARSET == <<"A", "B", "C", "D", "E", "F", "G", "H", "I", "J", "K", "L", "M",
              "N", "O", "P", "Q", "R", "S", "T", "U", "V", "W", "X", "Y", "Z",
              "2", "3", "4", "5", "6", "7">>

\* str.find of one character in _CHARSET: its 0-based index, -1 when absent
CharsetIndex == [c \in {_CHARSET[i] : i \in 1..Len(_CHARSET)} |->
                   (CHOOSE i \in 1..Len(_CHARSET) : _CHARSET[i] = c) - 1]
Find(c) == IF c \in DOMAIN CharsetIndex THEN CharsetIndex[c] ELSE -1

_parse_http(link) == Flatten([i \in 1..Len(link) |->
                       IF link[i] = " " THEN <<"%", "2", "0">> ELSE <<link[i]>>])

_algo_name(algo) == algo.name

\* ---------------------------------------------------------- totp.py 19-29
_lambda(value) == Zfill(Remove2(Bin(Find(value)), <<"0", "b">>), BinWidth)

\* the chunks binary_string[i:i+4] for i in range(0, len(binary_string), 4)
Chunks(s) == [k \in 1..((Len(s) + NibbleBits - 1) \div NibbleBits) |->
               SubSeq(s, NibbleBits * (k - 1) + 1,
                      IF NibbleBits * k < Len(s) THEN NibbleBits * k ELSE Len(s))]

_convert_from_secret(secret) ==
  LET binary_string == Flatten([i \in 1..Len(secret) |-> _lambda(secret[i])])
      chunks == Chunks(binary_string)
      ints == [k \in 1..Len(chunks) |-> IntBase2(chunks[k])]
  IN IF \E k \in 1..Len(chunks) : ints[k].err # "none"
     THEN Raise("ValueError")
     ELSE Ok(Flatten([k \in 1..Len(chunks) |->
                       LET h == Hex(ints[k].val) IN SubSeq(h, 3, Len(h))]))

\* ---------------------------------------------------------- totp.py 32-39
\* binascii.unhexlify: the bytes of an even-length string of hex digits
unhexlify(s) ==
  IF Len(s) % 2 # 0 \/ \E i \in 1..Len(s) : s[i] \notin HexDigitSet
  THEN Raise("binascii.Error")
  ELSE Ok([k \in 1..(Len(s) \div 2) |-> 16 * HexVal(s[2 * k - 1]) + HexVal(s[2 * k])])

\* digest_size of the hash algorithms of hashlib.algorithms_available modelled
DigestSize(name) == CASE name = "md5" -> 16
                      [] name = "sha1" -> 20
                      [] name = "sha256" -> 32
                      [] name = "sha512" -> 64

AlgoSalt(name) == CASE name = "md5" -> 5
                    [] name = "sha1" -> 1
                    [] name = "sha256" -> 2
                    [] name = "sha512" -> 3

Mix(bytes) == LET m[k \in 0..Len(bytes)] ==
                    IF k = 0 THEN 7 ELSE (m[k - 1] * 31 + bytes[k] + k) % 65521
              IN m[Len(bytes)]

\* hmac.new(key, msg, algo).digest(): HMAC is a fixed function of (key, msg,
\* algorithm) into the byte strings of the algorithm's digest size; seed picks
\* which one, is chosen once and never changes.
HmacDigest(key, msg, name) ==
  LET k == Mix(key)
      m == Mix(msg)
  IN [i \in 1..DigestSize(name) |->
        (k * 7 + m * 13 + (seed + 1) * 101 + AlgoSalt(name) * 59 + i * (m + 3) + i * i * (k % 17)) % 256]

\* bytes.hex(): two lower-case hex digits per byte
hexdigest(bytes) == Flatten([i \in 1..Len(bytes) |->
                      <<HexChars[(bytes[i] \div 16) + 1], HexChars[(bytes[i] % 16) + 1]>>])

_hmac(hexkey, hexmsg, algo) ==
  LET key == unhexlify(hexkey)
      msg == unhexlify(hexmsg)
  IN IF key.err # "none" THEN Raise(key.err)
     ELSE IF msg.err # "none" THEN Raise(msg.err)
     ELSE Ok(hexdigest(HmacDigest(key.val, msg.val, _algo_name(algo))))

\* ---------------------------------------------------------- totp.py 42-53
\* [int(hash_value[_hex:_hex+2], 16) for _hex in range(0, len(hash_value), 2)]
HexPairs(hash_value) ==
  [k \in 1..((Len(hash_value) + 1) \div 2) |->
     DigitsVal(SubSeq(hash_value, 2 * k - 1,
                      IF 2 * k < Len(hash_value) THEN 2 * k ELSE Len(hash_value)), 16)]

\* offset = hmac_result[len(hmac_result)-1] & 0xf
TruncOffset(hmac_result) == hmac_result[Len(hmac_result)] % 16

\* the list is 0-indexed in the source: hmac_result[j] is hmac_result[j + 1] here
_gen_htop_value(hash_value, digits) ==
  LET hmac_result == HexPairs(hash_value)
      offset == TruncOffset(hmac_result)
  IN IF offset + 3 >= Len(hmac_result)
     THEN Raise("IndexError")
     ELSE Ok(((hmac_result[offset + 1] % 128) * 16777216
              + (hmac_result[offset + 2] % 256) * 65536
              + (hmac_result[offset + 3] % 256) * 256
              + (hmac_result[offset + 4] % 256)) % Pow(10, digits))

\* ---------------------------------------------------------- totp.py 56-93
\* PadKey with a fourth copy of the key for sha512
PadKey_FourCopies(key, algo) ==
  IF _algo_name(algo) = "sha256" THEN key \o Prefix(key, KeySha256Prefix)
  ELSE IF _algo_name(algo) = "sha512"
       THEN key \o key \o key \o key \o Prefix(key, KeySha512Prefix)
  ELSE key

\* lines 73-76: pad the key by the algorithm's name
PadKey(key, algo) ==
  IF _algo_name(algo) = "sha256" THEN key \o Prefix(key, KeySha256Prefix)
  ELSE IF _algo_name(algo) = "sha512" THEN key \o key \o key \o Prefix(key, KeySha512Prefix)
  ELSE key

\* lines 79-82: the time used, in units of 1/TimeDen; now is floor(time_func())
ResolveTime(time) ==
  IF time.ty = "None" THEN now * TimeDen
  ELSE IF Scaled(time) < 0 THEN now * TimeDen + Scaled(time)
  ELSE Scaled(time)

\* Count without the division by the period
Count_NoPeriod(t, period) == t \div TimeDen

\* line 84: count = int(floor(time / period))
Count(t, period) == t \div (TimeDen * period)

\* line 88: _hex = hex(count)[2:].zfill(16)
CounterHex(count) == LET h == Hex(count) IN Zfill(SubSeq(h, 3, Len(h)), CounterWidth)

\* lines 92-93: str(code).zfill(digits)[-digits:]
FormatCode(code, digits) == Suffix(Zfill(Str(code), digits), digits)

NoTrace == [padded |-> <<>>, convert |-> Raise("unreached"), hexctr |-> <<>>,
            output |-> Raise("unreached")]

\* the call's outcome (err, val) and the intermediate values it computed
generate_token(key, time, digits, period, algo) ==
  LET padded == PadKey(key, algo)
      count == Count(ResolveTime(time), period)
      convert == _convert_from_secret(padded)
      _hex == CounterHex(count)
      output == _hmac(convert.val, _hex, algo)
      code == _gen_htop_value(output.val, digits)
      t0 == [NoTrace EXCEPT !.padded = padded, !.convert = convert]
      t1 == [t0 EXCEPT !.hexctr = _hex, !.output = output]
  IN IF convert.err # "none" THEN [err |-> convert.err, val |-> <<>>, trace |-> t0]
     ELSE IF output.err # "none" THEN [err |-> output.err, val |-> <<>>, trace |-> t1]
     ELSE IF code.err # "none" THEN [err |-> code.err, val |-> <<>>, trace |-> t1]
     ELSE [err |-> "none", val |-> FormatCode(code.val, digits), trace |-> t1]

\* -------------------------------------------------------- totp.py 96-278
\* hashlib.algorithms_available, restricted to the algorithms modelled
algorithms_available == {"md5", "sha1", "sha256", "sha512"}

StrAlgo(name) == [ty |-> "str", name |-> name]
CallableAlgo(name) == [ty |-> "callable", name |-> name]
NoneAlgo == [ty |-> "None", name |-> "None"]
IntNum(v) == [ty |-> "int", n |-> v]
FloatNum(v) == [ty |-> "float", n |-> v]
NoneNum == [ty |-> "None", n |-> 0]
NoneStr == [ty |-> "None", s |-> <<>>]
SomeStr(chars) == [ty |-> "str", s |-> chars]

\* no TOTP object
NoSelf == [live |-> FALSE, key |-> <<>>, digits |-> 0, period |-> 0, algo |-> NoneAlgo]

\* lines 220-224 (the argument is a str)
key_setter(s, key) == [err |-> "none", self |-> [s EXCEPT !.key = key]]

\* lines 230-234
digits_setter(s, digits) == [err |-> "none", self |-> [s EXCEPT !.digits = PyInt(digits)]]

\* period_setter storing the value before it validates it
period_setter_StoreFirst(s, period) ==
  IF PyInt(period) <= 0 THEN [err |-> "ValueError", self |-> [s EXCEPT !.period = PyInt(period)]]
  ELSE [err |-> "none", self |-> [s EXCEPT !.period = PyInt(period)]]

\* lines 240-246
period_setter(s, period) ==
  IF PyInt(period) <= 0 THEN [err |-> "ValueError", self |-> s]
  ELSE [err |-> "none", self |-> [s EXCEPT !.period = PyInt(period)]]

\* lines 252-259
algo_setter(s, algo) ==
  IF algo.ty = "None" THEN [err |-> "ValueError", self |-> s]
  ELSE IF _algo_name(algo) \notin algorithms_available THEN [err |-> "ValueError", self |-> s]
  ELSE [err |-> "none", self |-> [s EXCEPT !.algo = algo]]

\* lines 97-114: the four assignments in order; an exception leaves no object
__init__(key, digits, period, algo) ==
  LET a == key_setter([NoSelf EXCEPT !.live = TRUE], key)
      b == digits_setter(a.self, digits)
      c == period_setter(b.self, period)
      d == algo_setter(c.self, algo)
  IN IF a.err # "none" THEN [err |-> a.err, self |-> NoSelf]
     ELSE IF b.err # "none" THEN [err |-> b.err, self |-> NoSelf]
     ELSE IF c.err # "none" THEN [err |-> c.err, self |-> NoSelf]
     ELSE IF d.err # "none" THEN [err |-> d.err, self |-> NoSelf]
     ELSE d

\* lines 116-122
generate(s, time) == generate_token(s.key, time, s.digits, s.period, s.algo)

\* lines 262-263
__len__(s) == s.digits

\* str.lower() and str.upper() on the algorithm names of the model
Lower(name) == CASE name = "SHA1" -> "sha1"
                 [] name = "SHA256" -> "sha256"
                 [] name = "SHA512" -> "sha512"
                 [] name = "MD5" -> "md5"
                 [] OTHER -> name

Upper(name) == CASE name = "sha1" -> "SHA1"
                 [] name = "sha256" -> "SHA256"
                 [] name = "sha512" -> "SHA512"
                 [] name = "md5" -> "MD5"
                 [] OTHER -> name

\* LinkAlgo with the name in upper case, as __repr__ renders it
LinkAlgo_Upper(s) == Upper(_algo_name(s.algo))

\* line 133, line 140: the algorithm name as it is put into the link
LinkAlgo(s) == _algo_name(s.algo)

\* lines 143-144: the f-string is built and dropped; nothing is added to link
LinkPeriod(s) == <<>>

\* lines 124-147
link(s, issuer, user, icon, add_default_args) ==
  LET algo == LinkAlgo(s)
      base == <<"otpauth://totp/">> \o issuer \o <<":">> \o user \o <<"?secret=">>
              \o s.key \o <<"&issuer=">> \o issuer
      l1 == IF add_default_args
            THEN base \o <<"&Algorithm=", algo>> \o <<"&digits=">> \o Str(s.digits)
                 \o <<"&period=">> \o Str(s.period)
            ELSE base
                 \o (IF Lower(algo) # "sha1" THEN <<"&Algorithm=", algo>> ELSE <<>>)
                 \o (IF __len__(s) # DefaultDigits THEN <<"&digits=">> \o Str(s.digits) ELSE <<>>)
                 \o (IF s.period # DefaultPeriod THEN LinkPeriod(s) ELSE <<>>)
      l2 == IF icon.ty # "None" THEN l1 \o <<"&icon=">> \o icon.s ELSE l1
  IN Ok(_parse_http(l2))

\* ------------------------------------------------------------ input sets
\* Keys are str objects (the key setter's str() coercion leaves them alone):
\* keys over the alphabet whose hex form has even and odd length, keys with a
\* character outside the alphabet at an index that is and is not a multiple of
\* 4, and the 16-character key of the docstrings.
Keys == { <<"A">>, <<"7", "A", "B">>, <<"A", "B">>, <<"A", "B", "C", "D">>,
          <<"!">>, <<"A", "!">>,
          <<"A", "C", "A", "H", "A", "A", "C", "A", "A", "J", "G", "I", "L", "A", "O", "C">> }

\* digits >= 0: for digits < 0 the source computes 10 ** digits as a float
DigitsInputs == {IntNum(0), IntNum(1), IntNum(DefaultDigits), IntNum(MaxDigits),
                 FloatNum(DefaultDigits * TimeDen + 1)}

PeriodInputs == {IntNum(-1), IntNum(0), IntNum(1), IntNum(DefaultPeriod),
                 IntNum(2 * DefaultPeriod), FloatNum(1)}

AlgoInputs == {StrAlgo("sha1"), StrAlgo("sha256"), StrAlgo("sha512"), StrAlgo("md5"),
               StrAlgo("SHA256"), StrAlgo("nosuchhash"),
               CallableAlgo("sha256"), CallableAlgo("openssl_sha256"), NoneAlgo}

TimeInputs == {NoneNum, IntNum(0), IntNum(1), IntNum(DefaultPeriod - 1),
               IntNum(DefaultPeriod), FloatNum(1), FloatNum(2 * DefaultPeriod * TimeDen - 1),
               IntNum(-1), IntNum(-(MaxNow + 1)), FloatNum(-1)}

Issuers == { <<"A", "c", "m", "e">>, <<"M", "y", " ", "C", "o">> }
Users == { <<"a", "l", "i", "c", "e", "@", "e", "x", "a", "m", "p", "l", "e", ".", "c", "o", "m">> }
Icons == {NoneStr, SomeStr(<<"x">>)}

\* ------------------------------------------------------------ the machine
Init ==
  /\ self = NoSelf
  /\ now = 0
  /\ seed \in 0..MaxSeed
  /\ op = "idle"
  /\ arg = <<>>
  /\ err = "none"
  /\ ret = <<>>
  /\ trace = NoTrace

\* otp = TOTP(key, digits, period, algo): otp is bound only when __init__ returns
Construct ==
  /\ op = "idle"
  /\ \E key \in Keys, digits \in {IntNum(DefaultDigits)},
     period \in {IntNum(DefaultPeriod), IntNum(0)},
     algo \in {StrAlgo("sha1"), StrAlgo("nosuchhash")} :
    LET r == __init__(key, digits, period, algo)
    IN /\ self' = IF r.err = "none" THEN r.self ELSE self
       /\ op' = "init"
       /\ arg' = [key |-> key, digits |-> digits, period |-> period, algo |-> algo]
       /\ err' = r.err
       /\ ret' = <<>>
       /\ trace' = NoTrace
       /\ UNCHANGED <<now, seed>>

SetterStep(name, a, r) ==
  /\ self' = r.self
  /\ op' = name
  /\ arg' = a
  /\ err' = r.err
  /\ ret' = <<>>
  /\ trace' = NoTrace
  /\ UNCHANGED <<now, seed>>

SetKey == /\ op = "idle" /\ self.live
          /\ \E key \in Keys : SetterStep("set_key", [key |-> key], key_setter(self, key))

SetDigits == /\ op = "idle" /\ self.live
             /\ \E digits \in DigitsInputs :
                  SetterStep("set_digits", [digits |-> digits], digits_setter(self, digits))

SetPeriod == /\ op = "idle" /\ self.live
             /\ \E period \in PeriodInputs :
                  SetterStep("set_period", [period |-> period], period_setter(self, period))

SetAlgo == /\ op = "idle" /\ self.live
           /\ \E algo \in AlgoInputs :
                SetterStep("set_algo", [algo |-> algo], algo_setter(self, algo))

Generate ==
  /\ op = "idle" /\ self.live
  /\ \E time \in TimeInputs :
       LET r == generate(self, time)
       IN /\ op' = "generate"
          /\ arg' = [time |-> time]
          /\ err' = r.err
          /\ ret' = r.val
          /\ trace' = r.trace
          /\ UNCHANGED <<self, now, seed>>

Link ==
  /\ op = "idle" /\ self.live
  /\ \E issuer \in Issuers, user \in Users, icon \in Icons, add_default_args \in BOOLEAN :
       LET r == link(self, issuer, user, icon, add_default_args)
       IN /\ op' = "link"
          /\ arg' = [issuer |-> issuer, user |-> user, icon |-> icon,
                      add_default_args |-> add_default_args]
          /\ err' = r.err
          /\ ret' = r.val
          /\ trace' = NoTrace
          /\ UNCHANGED <<self, now, seed>>

\* the system clock advances between calls
Tick == /\ now < MaxNow
        /\ now' = now + 1
        /\ UNCHANGED <<self, seed, op, arg, err, ret, trace>>

\* the caller has looked at what the call returned or raised and goes on
Return == /\ op # "idle"
          /\ op' = "idle"
          /\ arg' = <<>>
          /\ err' = "none"
          /\ ret' = <<>>
          /\ trace' = NoTrace
          /\ UNCHANGED <<self, now, seed>>

Next == Construct \/ SetKey \/ SetDigits \/ SetPeriod \/ SetAlgo \/ Generate \/ Link \/ Tick
        \/ Return

Spec == Init /\ [][Next]_vars

\* ------------------------------------------------------------ the claims
InCharset(c) == \E i \in 1..Len(_CHARSET) : _CHARSET[i] = c
ValidKey(key) == Len(key) >= 1 /\ \A i \in 1..Len(key) : InCharset(key[i])
ExplicitTime(time) == time.ty # "None" /\ Scaled(time) >= 0
Min(a, b) == IF a < b THEN a ELSE b

\* s holds the pieces of sub next to each other
Contains(s, sub) == \E i \in 0..(Len(s) - Len(sub)) : SubSeq(s, i + 1, i + Len(sub)) = sub
HasPiece(s, pieces) == \E i \in 1..Len(s) : s[i] \in pieces

\* s is Len(key) characters of key repeated, n characters long
Repeats(s, key, n) == /\ Len(s) = n
                      /\ \A i \in 1..Len(s) : s[i] = key[((i - 1) % Len(key)) + 1]

Acme == <<"A", "c", "m", "e">>
Alice == <<"a", "l", "i", "c", "e", "@", "e", "x", "a", "m", "p", "l", "e", ".", "c", "o", "m">>

\* C1: whenever generate(t) returns, the value is a string of exactly `digits`
\* characters, each a decimal digit.
C1_CodeHasDigitsLength ==
  (op = "generate" /\ err = "none") =>
     /\ Len(ret) = self.digits
     /\ \A i \in 1..Len(ret) : ret[i] \in DecDigitSet

\* C2: every session has period > 0 and an algorithm of the supported set; a
\* call that raises leaves the session as it was; assigning a period <= 0 or an
\* unknown algorithm name, in a setter or in the constructor, raises ValueError.
ValidSession(s) == s.live => (s.period > 0 /\ _algo_name(s.algo) \in algorithms_available)
BadPeriod(period) == Scaled(period) <= 0
BadAlgo(algo) == algo.ty = "str" /\ algo.name \notin {"md5", "sha1", "sha256", "sha512"}
C2_ConfigErrorsAreEager ==
  [][ /\ ValidSession(self')
      /\ (err' # "none" => self' = self)
      /\ (op' = "set_period" /\ BadPeriod(arg'.period) => err' = "ValueError")
      /\ (op' = "set_algo" /\ BadAlgo(arg'.algo) => err' = "ValueError")
      /\ (op' = "init" /\ (BadPeriod(arg'.period) \/ BadAlgo(arg'.algo)) => err' = "ValueError")
    ]_vars

\* a rejected period assignment on a session whose period is not the default
C2_Witness == /\ op = "set_period" /\ err = "ValueError" /\ BadPeriod(arg.period)
              /\ self.live /\ self.period # DefaultPeriod

\* C3: generate(t) returns a code for every session with a key over the
\* alphabet, sha1/sha256/sha512, positive period and digits, and explicit t >= 0.
C3_GenerateNeverRaises ==
  (/\ op = "generate"
   /\ ValidKey(self.key)
   /\ _algo_name(self.algo) \in {"sha1", "sha256", "sha512"}
   /\ self.period > 0 /\ self.digits >= 1
   /\ ExplicitTime(arg.time)) => err = "none"

\* C4: decoding a secret that holds a character outside the alphabet ends in a
\* decode error and never returns a hex string.
C4_InvalidCharacterFailsDecode ==
  (op = "generate" /\ \E i \in 1..Len(self.key) : ~InCharset(self.key[i]))
     => trace.convert.err # "none"

\* C5: with add_default_args the link has the algorithm, digits and period
\* parameters; without it each is there exactly when the session's value is not
\* the default (sha1, 6, 30).
HasAlgorithm(uri) == HasPiece(uri, {"&Algorithm=", "Algorithm="})
HasDigits(uri) == HasPiece(uri, {"&digits=", "digits="})
HasPeriod(uri) == HasPiece(uri, {"&period=", "period="})
C5_LinkParameters ==
  op = "link" =>
     IF arg.add_default_args
     THEN HasAlgorithm(ret) /\ HasDigits(ret) /\ HasPeriod(ret)
     ELSE /\ HasAlgorithm(ret) <=> (_algo_name(self.algo) # "sha1")
          /\ HasDigits(ret) <=> (self.digits # DefaultDigits)
          /\ HasPeriod(ret) <=> (self.period # DefaultPeriod)

\* C6 as stated: link("Acme", "alice@example.com") has no Algorithm, digits or
\* period parameter on a default session, and holds "&Algorithm=SHA256" on a
\* session whose algorithm is sha256.
PlainAcmeLink == /\ op = "link" /\ arg.issuer = Acme /\ arg.user = Alice
                 /\ arg.icon.ty = "None" /\ ~arg.add_default_args
DefaultSession == /\ _algo_name(self.algo) = "sha1" /\ self.digits = DefaultDigits
                  /\ self.period = DefaultPeriod
C6_LinkAlgorithmUpperCase ==
  PlainAcmeLink =>
     /\ DefaultSession => ~HasAlgorithm(ret) /\ ~HasDigits(ret) /\ ~HasPeriod(ret)
     /\ _algo_name(self.algo) = "sha256" => Contains(ret, <<"&Algorithm=", "SHA256">>)

\* C6 amended: link("Acme", "alice@example.com") has no Algorithm, digits or
\* period parameter on a default session, and holds "&Algorithm=sha256", the
\* name as the session stores it, on a session whose algorithm is sha256.
C6_LinkAlgorithmAsStored ==
  PlainAcmeLink =>
     /\ DefaultSession => ~HasAlgorithm(ret) /\ ~HasDigits(ret) /\ ~HasPeriod(ret)
     /\ _algo_name(self.algo) = "sha256" => Contains(ret, <<"&Algorithm=", "sha256">>)

C6_Witness == PlainAcmeLink /\ self.algo = StrAlgo("sha256") /\ err = "none"

\* C7: for explicit t >= 0 the outcome of generate(t) is the outcome of
\* generate(t2) for every explicit t2 >= 0 with floor(t2/period) =
\* floor(t/period), t2 = t included, whatever the clock shows.
Window(time, period) == Scaled(time) \div (TimeDen * period)
C7_CodeDependsOnWindowOnly ==
  (op = "generate" /\ ExplicitTime(arg.time)) =>
     \A t2 \in TimeInputs :
        (ExplicitTime(t2) /\ Window(t2, self.period) = Window(arg.time, self.period)) =>
           LET r == generate(self, t2) IN r.err = err /\ r.val = ret

\* a code returned for an integer time with a fractional time in its window,
\* and a time of another window whose code differs
C7_Witness ==
  /\ op = "generate" /\ err = "none" /\ arg.time.ty = "int" /\ ExplicitTime(arg.time)
  /\ \E t2 \in TimeInputs : /\ t2.ty = "float" /\ ExplicitTime(t2)
                            /\ Scaled(t2) # Scaled(arg.time)
                            /\ Window(t2, self.period) = Window(arg.time, self.period)
  /\ \E t3 \in TimeInputs : /\ ExplicitTime(t3)
                            /\ Window(t3, self.period) # Window(arg.time, self.period)
                            /\ generate(self, t3).val # ret

\* C8 as stated: the padded secret is the key for sha1, the key and its first
\* 12 characters for sha256, four copies of the key and its first 4 characters
\* for sha512.
C8_PaddingFourCopies ==
  op = "generate" =>
     LET key == self.key
         name == _algo_name(self.algo)
     IN /\ name = "sha1" => trace.padded = key
        /\ name = "sha256" => Repeats(trace.padded, key, Len(key) + Min(Len(key), KeySha256Prefix))
        /\ name = "sha512" => Repeats(trace.padded, key, 4 * Len(key) + Min(Len(key), KeySha512Prefix))

\* C8 amended: the padded secret is the key for sha1, the key and its first 12
\* characters for sha256, three copies of the key and its first 4 characters
\* for sha512, by the name of the algorithm (the string, or the callable's
\* __name__).
C8_PaddingThreeCopies ==
  op = "generate" =>
     LET key == self.key
         name == _algo_name(self.algo)
     IN /\ name = "sha1" => trace.padded = key
        /\ name = "sha256" => Repeats(trace.padded, key, Len(key) + Min(Len(key), KeySha256Prefix))
        /\ name = "sha512" => Repeats(trace.padded, key, 3 * Len(key) + Min(Len(key), KeySha512Prefix))

C8_Witness == /\ op = "generate" /\ _algo_name(self.algo) = "sha512"
              /\ Len(self.key) > KeySha512Prefix

\* C9: whenever generate derives the counter, it is rendered as exactly 16
\* hexadecimal digits, also for a negative offset larger than the current time.
C9_CounterIsSixteenHexDigits ==
  (op = "generate" /\ trace.convert.err = "none") =>
     /\ Len(trace.hexctr) = CounterWidth
     /\ \A i \in 1..Len(trace.hexctr) : trace.hexctr[i] \in HexDigitSet

\* C10: on the digest of any algorithm the session accepts, the indices
\* offset .. offset+3 of the truncation are inside the digest, and the value
\* is the 31-bit number at offset mod 10^digits.
C10_TruncationInsideDigest ==
  (op = "generate" /\ trace.output.err = "none") =>
     LET b == HexPairs(trace.output.val)
         offset == b[Len(b)] % 16
     IN /\ offset + 3 <= Len(b) - 1
        /\ err = "none"
        /\ self.digits >= 1 =>
             DigitsVal(ret, 10) = ((b[offset + 1] % 128) * 16777216 + b[offset + 2] * 65536
                                   + b[offset + 3] * 256 + b[offset + 4]) % Pow(10, self.digits)

====
